---- MODULE Spec2Model ----
(***************************************************************************)
(* A model of the iExec BigQuery dapp (v5): src/v5/app/src/app.py and the  *)
(* earlier variant src/v5/app/scr/app.py.                                  *)
(*                                                                         *)
(* Text is a sequence of strings: the characters of a token are one-letter *)
(* strings, the literal parts of an f-string are kept as whole strings.    *)
(* A file system is a function from paths to contents; a path is the pair  *)
(* <<directory, name>> of f'{directory}/{name}'.                           *)
(***************************************************************************)
EXTENDS Integers, Sequences, FiniteSets, TLC

VARIABLES
    argv,              \* sys.argv of the run
    pc,                \* position of the run in __main__
    fs,                \* the files of iexec_in and iexec_out: path -> content
    user_input_valid,  \* the value analyze_user_input returned
    coins,             \* sorted(list(set(user_input_valid + default_coins)))
    sql,               \* the query text
    results,           \* list(q): the rows the query returned
    raised,            \* the exception in flight: 0 none, 1..5 ErrorCallback, 6 any other
    deterministic,     \* src/app.py: the local `deterministic` (<<>> is None)
    computed,          \* src/app.py: the dict `computed`
    callback,          \* the callback payload (<<>> is None)
    first,             \* an argument list and what the sanitiser and the query builder make of it
    second,            \* a second argument list and what the same steps make of it
    how                \* how the second argument list differs from the first

vars == <<argv, pc, fs, user_input_valid, coins, sql, results, raised,
          deterministic, computed, callback, first, second, how>>

----------------------------------------------------------------------------
(* Bounds of the model *)

\* longest free part of an argument list in the sanitiser's specification
MaxArgs == 1
\* longest free part of an argument list in the specifications of a whole run
MaxRunArgs == 1
\* most rows the query returns in the specifications of a whole run
MaxRunRows == 2
\* most rows handed to create_csv in its own specification
MaxRows == 2

----------------------------------------------------------------------------
(* Characters and tokens *)

Digits == <<"0", "1", "2", "3", "4", "5", "6", "7", "8", "9">>
UpperCase == <<"A", "B", "C", "D", "E", "F", "G", "H", "I", "J", "K", "L", "M",
               "N", "O", "P", "Q", "R", "S", "T", "U", "V", "W", "X", "Y", "Z">>
LowerCase == <<"a", "b", "c", "d", "e", "f", "g", "h", "i", "j", "k", "l", "m",
               "n", "o", "p", "q", "r", "s", "t", "u", "v", "w", "x", "y", "z">>
\* the characters in code point order: '!' < '.' < digits < upper < lower
CodePoints == <<"!", ".">> \o Digits \o UpperCase \o LowerCase

Range(s) == {s[i] : i \in 1..Len(s)}

\* ord(c), up to the gaps between the classes of characters
Ord == [c \in Range(CodePoints) |-> CHOOSE i \in 1..Len(CodePoints) : CodePoints[i] = c]

AlnumChars == Range(Digits) \cup Range(UpperCase) \cup Range(LowerCase)

UpperOf == [c \in Range(LowerCase) |-> UpperCase[CHOOSE i \in 1..Len(LowerCase) : LowerCase[i] = c]]

LowerOf == [c \in Range(UpperCase) |-> LowerCase[CHOOSE i \in 1..Len(UpperCase) : UpperCase[i] = c]]

\* str.isalnum(): non-empty and every character a letter or a digit
isalnum(arg) ==
    /\ Len(arg) > 0
    /\ \A i \in 1..Len(arg) : arg[i] \in AlnumChars

upper_char(c) == IF c \in DOMAIN UpperOf THEN UpperOf[c] ELSE c

\* str.upper()
upper(arg) == [i \in 1..Len(arg) |-> upper_char(arg[i])]

lower_char(c) == IF c \in DOMAIN LowerOf THEN LowerOf[c] ELSE c

\* str.swapcase(), the caller's choice of letter case
swapcase(arg) ==
    [i \in 1..Len(arg) |-> IF arg[i] \in DOMAIN UpperOf THEN upper_char(arg[i])
                           ELSE lower_char(arg[i])]

\* Python's order of str: by code point, a proper prefix first
RECURSIVE str_lt(_, _)
str_lt(a, b) ==
    IF b = <<>> THEN FALSE
    ELSE IF a = <<>> THEN TRUE
    ELSE IF Head(a) = Head(b) THEN str_lt(Tail(a), Tail(b))
    ELSE Ord[Head(a)] < Ord[Head(b)]

\* sorted(list(set(xs)))
RECURSIVE sorted_set(_)
sorted_set(S) ==
    IF S = {} THEN <<>>
    ELSE LET m == CHOOSE x \in S : \A y \in S \ {x} : str_lt(x, y)
         IN  <<m>> \o sorted_set(S \ {m})

----------------------------------------------------------------------------
(* Module-level configuration *)

iexec_in == "/iexec_in"
iexec_out == "/iexec_out"
dataset == "bigquery.json"
dataset_loc == <<iexec_in, dataset>>
deterministic_file == "result.txt"
error_callback == TRUE

BTC == <<"B", "T", "C">>
ETH == <<"E", "T", "H">>
default_coins == <<BTC, ETH>>
max_input == 10

messages ==
    [c \in 1..6 |->
        CASE c = 1 -> "no dataset file found"
          [] c = 2 -> "credentials file not found or corrupted"
          [] c = 3 -> "general bigquery query error"
          [] c = 4 -> "error creating csv"
          [] c = 5 -> "auto callback test error"
          [] c = 6 -> "general dapp error"]

E5CB == <<"E", "5", "C", "B">>

----------------------------------------------------------------------------
(* analyze_user_input *)

\* the for loop without its break
RECURSIVE scan_input_unbounded(_, _, _)
scan_input_unbounded(dapp_input, input_count, dapp_input_valid) ==
    IF dapp_input = <<>> THEN dapp_input_valid
    ELSE LET arg == Head(dapp_input) IN
         IF isalnum(arg) /\ Len(arg) < 6
         THEN scan_input_unbounded(Tail(dapp_input), input_count + 1,
                                   Append(dapp_input_valid, upper(arg)))
         ELSE scan_input_unbounded(Tail(dapp_input), input_count, dapp_input_valid)

\* the for loop over dapp_input: the tokens kept, in input order
RECURSIVE scan_input(_, _, _)
scan_input(dapp_input, input_count, dapp_input_valid) ==
    IF dapp_input = <<>> THEN dapp_input_valid
    ELSE LET arg == Head(dapp_input) IN
         IF isalnum(arg) /\ Len(arg) < 6
         THEN IF input_count + 1 > max_input
              THEN dapp_input_valid
              ELSE scan_input(Tail(dapp_input), input_count + 1,
                              Append(dapp_input_valid, upper(arg)))
         ELSE scan_input(Tail(dapp_input), input_count, dapp_input_valid)

\* analyze_user_input returning dapp_input_valid as it stands
analyze_user_input_unsorted(a) ==
    LET dapp_input == SubSeq(a, 2, Len(a)) IN
    IF E5CB \in Range(dapp_input)
    THEN [code |-> 5, valid |-> <<>>]
    ELSE [code |-> 0, valid |-> scan_input(dapp_input, 0, <<>>)]

\* The value returned: the integer 5 is [code |-> 5, valid |-> <<>>], a list of
\* tickers is [code |-> 0, valid |-> the list].
analyze_user_input(a) ==
    LET dapp_input == SubSeq(a, 2, Len(a)) IN
    IF E5CB \in Range(dapp_input)
    THEN [code |-> 5, valid |-> <<>>]
    ELSE [code |-> 0, valid |-> sorted_set(Range(scan_input(dapp_input, 0, <<>>)))]

----------------------------------------------------------------------------
(* The query text and the digest *)

\* ', '.join(f'"{c}"' for c in cs)
RECURSIVE join_quoted(_)
join_quoted(cs) ==
    IF cs = <<>> THEN <<>>
    ELSE IF Len(cs) = 1 THEN <<"\"">> \o Head(cs) \o <<"\"">>
    ELSE <<"\"">> \o Head(cs) \o <<"\"">> \o <<", ">> \o join_quoted(Tail(cs))

\* the first occurrences of xs, in the order of xs
RECURSIVE first_occurrences(_, _)
first_occurrences(xs, seen) ==
    IF xs = <<>> THEN seen
    ELSE IF Head(xs) \in Range(seen) THEN first_occurrences(Tail(xs), seen)
    ELSE first_occurrences(Tail(xs), Append(seen, Head(xs)))

\* coins without sorted(): the set in the order the tickers came
coins_of_unsorted(valid) == first_occurrences(valid \o default_coins, <<>>)

\* coins = sorted(list(set(user_input_valid + default_coins)))
coins_of(valid) == sorted_set(Range(valid \o default_coins))

\* coins_sql = ', '.join(f'"{c}"' for c in coins)
coins_sql_of(cs) == join_quoted(cs)

\* the grave accent that quotes the table name in the query text
grave == "<grave>"

\* sql = f'SELECT ... FROM {grave}{table}{grave} WHERE coin IN ({coins_sql}) ORDER BY coin, date ASC'
sql_of(table, coins_sql) ==
    <<"SELECT coin, price, cap, date ", "FROM ", grave>> \o table
        \o <<grave, " ", "WHERE coin ", "IN (">>
        \o coins_sql \o <<") ", "ORDER BY coin, date ASC">>

\* sha256(str(txt).encode('utf-8')).hexdigest(): 64 hex digits, one digest per text
sha256_hexdigest(txt) == <<"sha256:">> \o txt

----------------------------------------------------------------------------
(* The inputs of a run *)

prog == <<"a", "p", "p", ".", "p", "y">>

Tokens ==
    { <<"b", "t", "c">>, BTC, <<"d", "o", "g", "e">>, <<"e", "t", "h">>,
      <<"b", "t", "c", "!">>, <<"e", "t", "h", "e", "r", "e", "u", "m">>, E5CB }

RejectedTokens == {t \in Tokens : ~(isalnum(t) /\ Len(t) < 6)}

\* the names a dataset descriptor may give
Tables == { <<"crypto.prices">>, <<"crypto.prices_test">> }

SeqsUpTo(S, n) == UNION {[1..k -> S] : k \in 0..n}

\* k distinct tickers x0, x1, ...
Pad(k) == [i \in 1..k |-> <<"x", Digits[i]>>]

\* an argument list: the program name, up to max_input distinct tickers, then
\* up to n tokens chosen freely
ArgLists(n) == {<<prog>> \o Pad(k) \o s : k \in 0..max_input, s \in SeqsUpTo(Tokens, n)}

----------------------------------------------------------------------------
(* The sanitiser and the query builder on two argument lists *)

NoRun == [argv |-> <<>>, table |-> <<>>, user_input_valid |-> [code |-> 0, valid |-> <<>>],
          coins |-> <<>>, coins_sql |-> <<>>, sql |-> <<>>, sha |-> <<>>]

IdleRun ==
    /\ argv = <<>>
    /\ fs = <<>>
    /\ user_input_valid = [code |-> 0, valid |-> <<>>]
    /\ coins = <<>>
    /\ sql = <<>>
    /\ results = <<>>
    /\ raised = 0
    /\ deterministic = <<>>
    /\ computed = <<>>
    /\ callback = <<>>

runVars == <<argv, fs, user_input_valid, coins, sql, results, raised,
             deterministic, computed, callback>>

InitInput ==
    /\ pc = "input"
    /\ \E a \in ArgLists(MaxArgs), t \in Tables :
          first = [NoRun EXCEPT !.argv = a, !.table = t]
    /\ second = NoRun
    /\ how = "none"
    /\ IdleRun

\* the caller gives the same tokens in another order
Swap ==
    /\ pc = "input"
    /\ \E i, j \in 2..Len(first.argv) :
          /\ i < j
          /\ second' = [first EXCEPT !.argv = [@ EXCEPT ![i] = first.argv[j],
                                                        ![j] = first.argv[i]]]
    /\ how' = "order"
    /\ pc' = "sanitise"
    /\ UNCHANGED <<first, runVars>>

\* the caller gives a token in the other letter case
Recase ==
    /\ pc = "input"
    /\ \E i \in 2..Len(first.argv) :
          second' = [first EXCEPT !.argv = [@ EXCEPT ![i] = swapcase(first.argv[i])]]
    /\ how' = "case"
    /\ pc' = "sanitise"
    /\ UNCHANGED <<first, runVars>>

\* the caller repeats a token, or names a coin that is a default anyway
Duplicate ==
    /\ pc = "input"
    /\ \E t \in Range(SubSeq(first.argv, 2, Len(first.argv))) \cup Range(default_coins) :
          second' = [first EXCEPT !.argv = Append(@, t)]
    /\ how' = "duplicate"
    /\ pc' = "sanitise"
    /\ UNCHANGED <<first, runVars>>

\* the caller adds a token the sanitiser rejects
AddRejected ==
    /\ pc = "input"
    /\ \E t \in RejectedTokens : second' = [first EXCEPT !.argv = Append(@, t)]
    /\ how' = "rejected"
    /\ pc' = "sanitise"
    /\ UNCHANGED <<first, runVars>>

\* the descriptor names another dataset
Redirect ==
    /\ pc = "input"
    /\ \E t \in Tables \ {first.table} : second' = [first EXCEPT !.table = t]
    /\ how' = "dataset"
    /\ pc' = "sanitise"
    /\ UNCHANGED <<first, runVars>>

sanitised(r) == [r EXCEPT !.user_input_valid = analyze_user_input(r.argv)]

Sanitise ==
    /\ pc = "sanitise"
    /\ first' = sanitised(first)
    /\ second' = sanitised(second)
    /\ pc' = "build"
    /\ UNCHANGED <<how, runVars>>

\* lines 181-194 and 233 of a run that meets no error
built(r) ==
    LET cs == coins_of(r.user_input_valid.valid)
        q  == sql_of(r.table, coins_sql_of(cs))
    IN  [r EXCEPT !.coins = cs, !.coins_sql = coins_sql_of(cs), !.sql = q,
                  !.sha = sha256_hexdigest(q)]

Build ==
    /\ pc = "build"
    /\ first.user_input_valid.code # 5
    /\ second.user_input_valid.code # 5
    /\ first' = built(first)
    /\ second' = built(second)
    /\ pc' = "built"
    /\ UNCHANGED <<how, runVars>>

NextInput == Swap \/ Recase \/ Duplicate \/ AddRejected \/ Redirect \/ Sanitise \/ Build

SpecInput == InitInput /\ [][NextInput]_vars

----------------------------------------------------------------------------
(* Files *)

out(name) == <<iexec_out, name>>

exists(f, p) == p \in DOMAIN f

\* open(p, 'w+') and a complete write of c
write(f, p, c) == (p :> c) @@ f

\* stdout(txt): append one line to log.txt
stdout(f, txt) ==
    write(f, out("log.txt"), Append(IF exists(f, out("log.txt")) THEN f[out("log.txt")] ELSE <<>>, txt))

RECURSIVE stdout_all(_, _)
stdout_all(f, txts) ==
    IF txts = <<>> THEN f ELSE stdout_all(stdout(f, Head(txts)), Tail(txts))

\* the outcomes of writing a file: written whole, open() raises, or write() raises
\* after open() has created or truncated the file
IO == {"ok", "open", "write"}

\* create_receipt(txt)
create_receipt(f, txt, io) ==
    CASE io = "ok" -> write(f, out("receipt.txt"), txt)
      [] io = "open" -> f
      [] io = "write" -> write(f, out("receipt.txt"), <<>>)

\* create_error_file()
create_error_file(f) == write(f, out("ERROR.txt"), <<>>)

\* create_deterministic(txt) of src/app.py: the files after the call
create_deterministic(f, txt, io) ==
    CASE io = "ok" -> write(f, out(deterministic_file), sha256_hexdigest(txt))
      [] io = "open" -> f
      [] io = "write" -> write(f, out(deterministic_file), <<>>)

\* the path create_deterministic returns
deterministic_loc == out(deterministic_file)

\* create_computed_json(dic)
create_computed_json(f, dic) == write(f, out("computed.json"), dic)

----------------------------------------------------------------------------
(* create_csv *)

\* a dict in insertion order: a sequence of <<key, value>>
dict_has(d, k) == \E i \in 1..Len(d) : d[i][1] = k

dict_get(d, k) == d[CHOOSE i \in 1..Len(d) : d[i][1] = k][2]

dict_set(d, k, v) ==
    IF dict_has(d, k)
    THEN [i \in 1..Len(d) |-> IF d[i][1] = k THEN <<k, v>> ELSE d[i]]
    ELSE Append(d, <<k, v>>)

\* row.date.strftime('%m-%d-%Y'): the digits mmddyyyy read as a number
strftime(date) == date.month * 1000000 + date.day * 10000 + date.year

\* the loop over rows: cvs_data['coins'] after it
RECURSIVE csv_coins(_, _)
csv_coins(rows, d) ==
    IF rows = <<>> THEN d
    ELSE LET row == Head(rows) IN
         IF row.cap # 0
         THEN LET date_key == strftime(row.date) IN
              IF dict_has(d, row.coin)
              THEN csv_coins(Tail(rows),
                             dict_set(d, row.coin,
                                      dict_set(dict_get(d, row.coin), date_key, <<row.price, row.cap>>)))
              ELSE csv_coins(Tail(rows), dict_set(d, row.coin, <<>>))
         ELSE csv_coins(Tail(rows), d)

\* writer.writerow([coin, coin_date] + cvs_data['coins'][coin][coin_date])
csv_line(coin, coin_date, value) == <<coin, coin_date>> \o value

RECURSIVE csv_dates(_, _)
csv_dates(coin, dates) ==
    IF dates = <<>> THEN <<>>
    ELSE <<csv_line(coin, Head(dates)[1], Head(dates)[2])>> \o csv_dates(coin, Tail(dates))

RECURSIVE csv_lines(_)
csv_lines(d) ==
    IF d = <<>> THEN <<>>
    ELSE csv_dates(Head(d)[1], Head(d)[2]) \o csv_lines(Tail(d))

header == <<"coin", "price", "cap", "date">>

\* the lines of data.csv when every row is written: the header, then the data lines
csv_text(rows) == <<header>> \o csv_lines(csv_coins(rows, <<>>))

\* create_csv(rows): the files after the call; a write that raises leaves the
\* first n lines in the file
create_csv(f, rows, io, n) ==
    CASE io = "ok" -> write(f, out("data.csv"), csv_text(rows))
      [] io = "open" -> f
      [] io = "write" -> write(f, out("data.csv"), SubSeq(csv_text(rows), 1, n))

\* the rows a query may return
Dates ==
    { [year |-> 2021, month |-> 1, day |-> 1, hour |-> 0],
      [year |-> 2021, month |-> 1, day |-> 1, hour |-> 12],
      [year |-> 2021, month |-> 1, day |-> 2, hour |-> 0] }

Rows == [coin : {"BTC", "ETH"}, price : {1, 2}, cap : {0, 5}, date : Dates]

RunRows == {r \in Rows : r.coin = "BTC" /\ r.price = 2 /\ r.date.day = 1 /\ r.date.hour = 0}

----------------------------------------------------------------------------
(* A run of src/app.py *)

\* the dataset descriptor of iexec_in: absent, without the key, or naming a table
\* (an empty name among them)
Descriptors == {<<>>} \cup {("dataset" :> t) : t \in Tables \cup {<<>>}}

InputDirs == {<<>>} \cup {(dataset_loc :> d) : d \in Descriptors}

\* get_dataset_table(loc): the table is [ok |-> TRUE, table |-> the name], False is
\* [ok |-> FALSE, table |-> <<>>]
get_dataset_table(f, loc) ==
    IF exists(f, loc) /\ "dataset" \in DOMAIN f[loc]
    THEN [ok |-> TRUE, table |-> f[loc]["dataset"]]
    ELSE [ok |-> FALSE, table |-> <<>>]

\* Python's `not table` for what get_dataset_table returns: False, or an empty name
not_table(t) == ~t.ok \/ t.table = <<>>

\* the time of day is left out of the log
now == "<time>"

IdlePair ==
    /\ first = NoRun
    /\ second = NoRun
    /\ how = "none"

pairVars == <<first, second, how>>

Init ==
    /\ pc = "start"
    /\ argv \in ArgLists(MaxRunArgs)
    /\ fs \in InputDirs
    /\ user_input_valid = [code |-> 0, valid |-> <<>>]
    /\ coins = <<>>
    /\ sql = <<>>
    /\ results = <<>>
    /\ raised = 0
    /\ deterministic = <<>>
    /\ computed = <<>>
    /\ callback = <<>>
    /\ IdlePair

\* lines 163-175
Start ==
    /\ pc = "start"
    /\ user_input_valid' = analyze_user_input(argv)
    /\ fs' = stdout_all(fs, << <<"Start: ", now>>, <<"Max Input: ", max_input>>,
                               <<"Default Coins: ", default_coins>>, <<"Input: ", argv>>,
                               <<"Valid Input: ", analyze_user_input(argv)>>,
                               <<"running dapp...">> >>)
    /\ pc' = "coins"
    /\ UNCHANGED <<argv, coins, sql, results, raised, deterministic, computed, callback, pairVars>>

\* lines 178-182
BuildCoins ==
    /\ pc = "coins"
    /\ IF user_input_valid.code = 5
       THEN /\ raised' = 5
            /\ pc' = "except"
            /\ UNCHANGED coins
       ELSE /\ coins' = coins_of(user_input_valid.valid)
            /\ pc' = "dataset"
            /\ UNCHANGED raised
    /\ UNCHANGED <<argv, fs, user_input_valid, sql, results, deterministic, computed, callback, pairVars>>

\* lines 184-194
ReadDataset ==
    /\ pc = "dataset"
    /\ LET table == get_dataset_table(fs, dataset_loc) IN
       IF not_table(table)
       THEN /\ raised' = 1
            /\ pc' = "except"
            /\ UNCHANGED sql
       ELSE /\ sql' = sql_of(table.table, coins_sql_of(coins))
            /\ pc' = "query"
            /\ UNCHANGED raised
    /\ UNCHANGED <<argv, fs, user_input_valid, coins, results, deterministic, computed, callback, pairVars>>

\* lines 196-203: the client or the query raises FileNotFoundError; the log line
\* of line 200 is written when it is q.result() that raises
QueryFileNotFound ==
    /\ pc = "query"
    /\ raised' = 2
    /\ pc' = "except"
    /\ \/ fs' = fs
       \/ fs' = stdout(fs, <<"querying API...">>)
    /\ UNCHANGED <<argv, user_input_valid, coins, sql, results, deterministic, computed, callback, pairVars>>

\* lines 196-205: the client or the query raises anything else; the log line of
\* line 200 is written when it is q.result() that raises
QueryError ==
    /\ pc = "query"
    /\ raised' = 3
    /\ pc' = "except"
    /\ \/ fs' = fs
       \/ fs' = stdout(fs, <<"querying API...">>)
    /\ UNCHANGED <<argv, user_input_valid, coins, sql, results, deterministic, computed, callback, pairVars>>

\* the query step with an empty result raised as a query error
QueryOk_empty_is_error ==
    /\ pc = "query"
    /\ results' \in SeqsUpTo(RunRows, MaxRunRows)
    /\ fs' = stdout_all(fs, << <<"querying API...">>, <<"results received...">> >>)
    /\ IF results' = <<>>
       THEN raised' = 3 /\ pc' = "except"
       ELSE raised' = raised /\ pc' = "csv"
    /\ UNCHANGED <<argv, user_input_valid, coins, sql, deterministic, computed, callback, pairVars>>

\* lines 196-208: the query returns rows
QueryOk ==
    /\ pc = "query"
    /\ results' \in SeqsUpTo(RunRows, MaxRunRows)
    /\ fs' = stdout_all(fs, << <<"querying API...">>, <<"results received...">> >>)
    /\ pc' = "csv"
    /\ UNCHANGED <<argv, user_input_valid, coins, sql, raised, deterministic, computed, callback, pairVars>>

\* lines 210-214
CreateCsv ==
    /\ pc = "csv"
    /\ \E io \in IO, n \in 0..Len(csv_text(results)) - 1 :
          /\ io # "write" => n = 0
          /\ IF io = "ok"
             THEN /\ fs' = stdout(create_csv(fs, results, io, n), <<"data.csv created...">>)
                  /\ pc' = "receipt"
                  /\ UNCHANGED raised
             ELSE /\ fs' = create_csv(fs, results, io, n)
                  /\ raised' = 4
                  /\ pc' = "except"
    /\ UNCHANGED <<argv, user_input_valid, coins, sql, results, deterministic, computed, callback, pairVars>>

\* the text of the receipt: the job's fields as the collaborator gives them, of
\* which the query and the number of rows are kept
receipt_text(query, rows) ==
    <<"Google Cloud - Big Query Receipt", "Query: ">> \o query \o <<"Results: ", Digits[Len(rows) + 1]>>

\* lines 216-230
CreateReceipt ==
    /\ pc = "receipt"
    /\ \E io \in IO :
          IF io = "ok"
          THEN /\ fs' = stdout(create_receipt(fs, receipt_text(sql, results), io),
                               <<"receipt.txt created...">>)
               /\ pc' = "deterministic"
               /\ UNCHANGED raised
          ELSE /\ fs' = create_receipt(fs, receipt_text(sql, results), io)
               /\ raised' = 6
               /\ pc' = "except"
    /\ UNCHANGED <<argv, user_input_valid, coins, sql, results, deterministic, computed, callback, pairVars>>

\* lines 233-234; q.query is the text the query was made with
CreateDeterministic ==
    /\ pc = "deterministic"
    /\ \E io \in IO :
          IF io = "ok"
          THEN /\ fs' = stdout(create_deterministic(fs, sql, io), <<"deterministic file created...">>)
               /\ deterministic' = deterministic_loc
               /\ pc' = "final"
               /\ UNCHANGED raised
          ELSE /\ fs' = create_deterministic(fs, sql, io)
               /\ raised' = 6
               /\ pc' = "except"
               /\ UNCHANGED deterministic
    /\ UNCHANGED <<argv, user_input_valid, coins, sql, results, computed, callback, pairVars>>

\* the log line without the code
error_line_without_code(code) == <<"ERROR: ", messages[code]>>

\* the line an except clause logs
error_line(code) == <<"ERROR: (", code, ") ", messages[code]>>

\* lines 236-242: both except clauses
Except ==
    /\ pc = "except"
    /\ fs' = stdout(fs, error_line(raised))
    /\ pc' = "final"
    /\ UNCHANGED <<argv, user_input_valid, coins, sql, results, raised, deterministic, computed, callback, pairVars>>

\* the if statement without the call of create_deterministic in its else branch
finalize_without_fingerprint(f, det) ==
    IF det # <<>>
    THEN [computed |-> ("deterministic-output-path" :> det), fs |-> f]
    ELSE [computed |-> ("deterministic-output-path" :> deterministic_loc),
          fs |-> stdout(create_error_file(f), <<"error file created...">>)]

\* lines 248-255: `computed` and the files after the if statement
finalize(f, det) ==
    IF det # <<>>
    THEN [computed |-> ("deterministic-output-path" :> det), fs |-> f]
    ELSE [computed |-> ("deterministic-output-path" :> deterministic_loc),
          fs |-> stdout(create_error_file(
                            stdout(create_deterministic(f, <<"error">>, "ok"),
                                   <<"deterministic error file created...">>)),
                        <<"error file created...">>)]

\* lines 248-263
Finalize ==
    /\ pc = "final"
    /\ LET r == finalize(fs, deterministic) IN
          /\ computed' = r.computed
          /\ deterministic' = r.computed["deterministic-output-path"]
          /\ fs' = stdout(create_computed_json(r.fs, r.computed), <<"Done: ", now>>)
    /\ pc' = "done"
    /\ UNCHANGED <<argv, user_input_valid, coins, sql, results, raised, callback, pairVars>>

Next ==
    \/ Start
    \/ BuildCoins
    \/ ReadDataset
    \/ QueryFileNotFound
    \/ QueryError
    \/ QueryOk
    \/ CreateCsv
    \/ CreateReceipt
    \/ CreateDeterministic
    \/ Except
    \/ Finalize

Spec == Init /\ [][Next]_vars

----------------------------------------------------------------------------
(* A run of scr/app.py, the variant that reports an error in a callback *)

HexDigits == Digits \o <<"a", "b", "c", "d", "e", "f">>

\* to_hex(encode_single('uint8', error_code)): 0x and the 32 bytes of the word,
\* the code in the last one
create_error_callback(error_code) ==
    <<"0x">> \o [i \in 1..62 |-> "0"]
        \o <<HexDigits[(error_code \div 16) + 1], HexDigits[(error_code % 16) + 1]>>

\* add_callback(cb)
add_callback(f, cb) == write(f, out("computed.json"), ("callback-data" :> cb))

\* create_deterministic(txt) of scr/app.py: result.txt, then computed.json
scr_create_deterministic(f, txt, io) ==
    CASE io = "ok" -> write(write(f, out(deterministic_file), sha256_hexdigest(txt)),
                            out("computed.json"),
                            ("deterministic-output-path" :> out(deterministic_file)))
      [] io = "open" -> f
      [] io = "write" -> write(f, out(deterministic_file), <<>>)

\* lines 151-154
ScrStart ==
    /\ pc = "start"
    /\ fs' = stdout_all(fs, << <<"Start: ", now>>, <<"Max Input: ", max_input>>,
                               <<"Default Coins: ", default_coins>>, <<"Input: ", argv>> >>)
    /\ pc' = "coins"
    /\ UNCHANGED <<argv, user_input_valid, coins, sql, results, raised, deterministic, computed,
                   callback, pairVars>>

\* lines 157-163: analyze_user_input raises ErrorCallback(5) where src/app.py returns 5
ScrAnalyze ==
    /\ pc = "coins"
    /\ LET v == analyze_user_input(argv) IN
       IF v.code = 5
       THEN /\ raised' = 5
            /\ pc' = "except"
            /\ UNCHANGED <<user_input_valid, coins, fs>>
       ELSE /\ user_input_valid' = v
            /\ fs' = stdout_all(fs, << <<"Valid Input: ", v>>, <<"running dapp...">> >>)
            /\ coins' = coins_of(v.valid)
            /\ pc' = "dataset"
            /\ UNCHANGED raised
    /\ UNCHANGED <<argv, sql, results, deterministic, computed, callback, pairVars>>

\* lines 164-171: get_dataset_table raises ErrorCallback(1) where src/app.py gets False
ScrReadDataset ==
    /\ pc = "dataset"
    /\ LET table == get_dataset_table(fs, <<iexec_in, "bigquery.json">>) IN
       IF ~table.ok
       THEN /\ raised' = 1
            /\ pc' = "except"
            /\ UNCHANGED sql
       ELSE /\ sql' = sql_of(table.table, coins_sql_of(coins))
            /\ pc' = "query"
            /\ UNCHANGED raised
    /\ UNCHANGED <<argv, fs, user_input_valid, coins, results, deterministic, computed, callback, pairVars>>

\* lines 173-184
ScrQueryFileNotFound ==
    /\ pc = "query"
    /\ raised' = 2
    /\ pc' = "except"
    /\ \/ fs' = fs
       \/ fs' = stdout(fs, <<"querying API...">>)
    /\ UNCHANGED <<argv, user_input_valid, coins, sql, results, deterministic, computed, callback, pairVars>>

\* lines 173-186
ScrQueryError ==
    /\ pc = "query"
    /\ raised' = 3
    /\ pc' = "except"
    /\ \/ fs' = fs
       \/ fs' = stdout(fs, <<"querying API...">>)
    /\ UNCHANGED <<argv, user_input_valid, coins, sql, results, deterministic, computed, callback, pairVars>>

\* lines 173-189
ScrQueryOk ==
    /\ pc = "query"
    /\ results' \in SeqsUpTo(RunRows, MaxRunRows)
    /\ fs' = stdout_all(fs, << <<"querying API...">>, <<"results received...">> >>)
    /\ pc' = "csv"
    /\ UNCHANGED <<argv, user_input_valid, coins, sql, raised, deterministic, computed, callback, pairVars>>

\* lines 190-191: create_csv raises ErrorCallback(4) where src/app.py gets False
ScrCreateCsv ==
    /\ pc = "csv"
    /\ \E io \in IO, n \in 0..Len(csv_text(results)) - 1 :
          /\ io # "write" => n = 0
          /\ IF io = "ok"
             THEN /\ fs' = stdout(create_csv(fs, results, io, n), <<"data.csv created...">>)
                  /\ pc' = "receipt"
                  /\ UNCHANGED raised
             ELSE /\ fs' = create_csv(fs, results, io, n)
                  /\ raised' = 4
                  /\ pc' = "except"
    /\ UNCHANGED <<argv, user_input_valid, coins, sql, results, deterministic, computed, callback, pairVars>>

\* lines 193-207: an exception of create_receipt is no ErrorCallback and ends the run
ScrCreateReceipt ==
    /\ pc = "receipt"
    /\ \E io \in IO :
          IF io = "ok"
          THEN /\ fs' = stdout(create_receipt(fs, receipt_text(sql, results), io),
                               <<"receipt.txt created...">>)
               /\ pc' = "deterministic"
               /\ UNCHANGED raised
          ELSE /\ fs' = create_receipt(fs, receipt_text(sql, results), io)
               /\ raised' = 6
               /\ pc' = "crashed"
    /\ UNCHANGED <<argv, user_input_valid, coins, sql, results, deterministic, computed, callback, pairVars>>

\* lines 210-211: an exception of create_deterministic is no ErrorCallback either
ScrCreateDeterministic ==
    /\ pc = "deterministic"
    /\ \E io \in IO :
          IF io = "ok"
          THEN /\ fs' = stdout(scr_create_deterministic(fs, sql, io), <<"deterministic file created...">>)
               /\ pc' = "end"
               /\ UNCHANGED raised
          ELSE /\ fs' = scr_create_deterministic(fs, sql, io)
               /\ raised' = 6
               /\ pc' = "crashed"
    /\ UNCHANGED <<argv, user_input_valid, coins, sql, results, deterministic, computed, callback, pairVars>>

\* lines 215-219: the callback payload and the files after the if statement
scr_handle(f, code) ==
    IF error_callback
    THEN [callback |-> create_error_callback(code), fs |-> add_callback(f, create_error_callback(code))]
    ELSE [callback |-> <<>>, fs |-> scr_create_deterministic(f, <<"ERROR">>, "ok")]

\* lines 213-219
ScrExcept ==
    /\ pc = "except"
    /\ LET r == scr_handle(stdout(fs, <<"*****ERROR******: (", raised, ") ", messages[raised]>>), raised) IN
          /\ callback' = r.callback
          /\ fs' = r.fs
    /\ pc' = "end"
    /\ UNCHANGED <<argv, user_input_valid, coins, sql, results, raised, deterministic, computed, pairVars>>

\* line 221
ScrDone ==
    /\ pc = "end"
    /\ fs' = stdout(fs, <<"Done: ", now>>)
    /\ pc' = "done"
    /\ UNCHANGED <<argv, user_input_valid, coins, sql, results, raised, deterministic, computed,
                   callback, pairVars>>

NextScr ==
    \/ ScrStart
    \/ ScrAnalyze
    \/ ScrReadDataset
    \/ ScrQueryFileNotFound
    \/ ScrQueryError
    \/ ScrQueryOk
    \/ ScrCreateCsv
    \/ ScrCreateReceipt
    \/ ScrCreateDeterministic
    \/ ScrExcept
    \/ ScrDone

SpecScr == Init /\ [][NextScr]_vars

----------------------------------------------------------------------------
(* create_csv on longer row sequences *)

\* a run that has just received its rows: no argument, the first table
InitCsv ==
    /\ pc = "csv"
    /\ argv = <<prog>>
    /\ user_input_valid = analyze_user_input(<<prog>>)
    /\ coins = coins_of(<<>>)
    /\ \E t \in Tables :
          /\ sql = sql_of(t, coins_sql_of(coins_of(<<>>)))
          /\ fs = stdout_all((dataset_loc :> ("dataset" :> t)),
                             << <<"Start: ", now>>, <<"Max Input: ", max_input>>,
                                <<"Default Coins: ", default_coins>>, <<"Input: ", <<prog>> >>,
                                <<"Valid Input: ", analyze_user_input(<<prog>>)>>,
                                <<"running dapp...">>, <<"querying API...">>,
                                <<"results received...">> >>)
    /\ results \in SeqsUpTo(Rows, MaxRows)
    /\ raised = 0
    /\ deterministic = <<>>
    /\ computed = <<>>
    /\ callback = <<>>
    /\ IdlePair

NextCsv == CreateCsv

SpecCsv == InitCsv /\ [][NextCsv]_vars

----------------------------------------------------------------------------
(* Claims about the sanitiser and the query builder, under SpecInput *)

\* the tokens of an argument list that the sanitiser accepts, repeats counted
accepted(a) == Cardinality({i \in 2..Len(a) : isalnum(a[i]) /\ Len(a[i]) < 6})

Reordered == pc \in {"build", "built"} /\ how = "order"

\* C6 as claimed: analyze_user_input returns the same value for every order of
\* the tokens after position 0, whatever the length of the list.
C6_OrderIndependent ==
    Reordered => first.user_input_valid = second.user_input_valid

\* C6 as amended: analyze_user_input returns the same value for every order of
\* the tokens after position 0 when the list holds the sentinel or at most
\* max_input accepted tokens; past max_input the tokens scanned first win.
C6_OrderIndependentWithinMax ==
    Reordered /\ (E5CB \in Range(first.argv) \/ accepted(first.argv) <= max_input)
        => first.user_input_valid = second.user_input_valid

\* a full list of max_input accepted tokens, given in two different orders
C6_Witness ==
    /\ Reordered
    /\ accepted(first.argv) = max_input
    /\ first.argv # second.argv
    /\ Len(first.user_input_valid.valid) = max_input
    /\ first.user_input_valid = second.user_input_valid

\* C9: two argument lists with the same effective ticker set and the same
\* dataset give the same IN filter, the same query text and the same
\* fingerprint of a successful run.
C9_Determinism ==
    pc = "built" /\ Range(first.coins) = Range(second.coins) /\ first.table = second.table
        => /\ first.coins_sql = second.coins_sql
           /\ first.sql = second.sql
           /\ first.sha = second.sha

\* two lists that differ in what the sanitiser keeps and agree on the effective set
C9_Witness ==
    /\ pc = "built"
    /\ first.user_input_valid # second.user_input_valid
    /\ Range(first.coins) = Range(second.coins)
    /\ first.table = second.table
    /\ Len(first.coins) > Len(default_coins)
    /\ first.sql = second.sql

----------------------------------------------------------------------------
(* Claims about a run of src/app.py, under Spec *)

log == IF exists(fs, out("log.txt")) THEN fs[out("log.txt")] ELSE <<>>

logged(txt) == \E i \in 1..Len(log) : Len(log[i]) = Len(txt) /\ log[i] = txt

\* the fingerprint file holds the digest of txt
fingerprint_of(txt) ==
    exists(fs, out("result.txt")) /\ fs[out("result.txt")] = sha256_hexdigest(txt)

\* C1: whatever happens inside the try block, the run reaches its end, and at
\* its end result.txt is written and not empty, computed.json is written, and
\* its deterministic-output-path is the path of result.txt.
C1_FingerprintAndDescriptor ==
    pc = "done" =>
        /\ exists(fs, out("result.txt"))
        /\ fs[out("result.txt")] # <<>>
        /\ exists(fs, out("computed.json"))
        /\ "deterministic-output-path" \in DOMAIN fs[out("computed.json")]
        /\ fs[out("computed.json")]["deterministic-output-path"] = out("result.txt")

\* a run whose success-path writes failed after data.csv was made
C1_Witness ==
    /\ pc = "done"
    /\ raised = 6
    /\ exists(fs, out("data.csv"))
    /\ fingerprint_of(<<"error">>)
    /\ fs[out("computed.json")]["deterministic-output-path"] = out("result.txt")

\* the query returned, with no row
ZeroRows == logged(<<"results received...">>) /\ results = <<>>

\* C4 as claimed: a query that returns no row ends the run failed, with no
\* data.csv and no receipt, with the error marker, and with the fingerprint of
\* the error sentinel.
C4_ZeroRowsFail ==
    pc = "done" /\ ZeroRows =>
        /\ raised # 0
        /\ ~exists(fs, out("data.csv"))
        /\ ~exists(fs, out("receipt.txt"))
        /\ exists(fs, out("ERROR.txt"))
        /\ fingerprint_of(<<"error">>)

\* C4 as amended: a query that returns no row is no failure. The run goes on to
\* create_csv; it fails only if a later write fails (code 4, or an exception of
\* the receipt or of the fingerprint), and otherwise it succeeds with a data.csv
\* of the header alone, a receipt, no error marker, and the fingerprint of the
\* query text.
C4_ZeroRowsSucceed ==
    pc = "done" /\ ZeroRows =>
        /\ raised \in {0, 4, 6}
        /\ raised = 0 =>
              /\ exists(fs, out("data.csv"))
              /\ fs[out("data.csv")] = <<header>>
              /\ exists(fs, out("receipt.txt"))
              /\ fs[out("receipt.txt")] = receipt_text(sql, <<>>)
              /\ ~exists(fs, out("ERROR.txt"))
              /\ fingerprint_of(sql)

\* a successful run on no row
C4_Witness ==
    /\ pc = "done"
    /\ ZeroRows
    /\ raised = 0
    /\ fs[out("data.csv")] = <<header>>
    /\ ~exists(fs, out("ERROR.txt"))

\* C5 as claimed: on a failing run ERROR.txt holds the code and the message of
\* the failure.
C5_MarkerHoldsCode ==
    pc = "done" /\ raised # 0 =>
        /\ exists(fs, out("ERROR.txt"))
        /\ Digits[raised + 1] \in Range(fs[out("ERROR.txt")])
        /\ messages[raised] \in Range(fs[out("ERROR.txt")])

\* C5 as amended: on a failing run ERROR.txt is written and is empty; the code
\* and the message of the failure are one line of log.txt.
C5_MarkerEmptyCodeLogged ==
    pc = "done" /\ raised # 0 =>
        /\ exists(fs, out("ERROR.txt"))
        /\ fs[out("ERROR.txt")] = <<>>
        /\ logged(<<"ERROR: (", raised, ") ", messages[raised]>>)

\* a run that found no dataset descriptor
C5_Witness ==
    /\ pc = "done"
    /\ raised = 1
    /\ ~exists(fs, dataset_loc)
    /\ exists(fs, out("ERROR.txt"))
    /\ logged(<<"ERROR: (", 1, ") ", "no dataset file found">>)

\* the coins of the query have been computed
HasCoins == pc \notin {"start", "coins"} /\ user_input_valid.code = 0

\* C7 as claimed: the effective ticker set has at least the 2 defaults and at
\* most max_input tickers.
C7_SizeWithinMax ==
    HasCoins =>
        /\ Cardinality(Range(coins)) >= Len(default_coins)
        /\ Cardinality(Range(coins)) <= max_input

\* C7 as amended: the effective ticker set has at least the 2 defaults and at
\* most max_input + 2 tickers: max_input bounds the sanitised input, and the
\* defaults are added to it.
C7_SizeWithinMaxPlusDefaults ==
    HasCoins =>
        /\ Cardinality(Range(coins)) >= Len(default_coins)
        /\ Cardinality(Range(coins)) <= max_input + Len(default_coins)

\* max_input tickers of the caller, none of them a default
C7_Witness ==
    /\ HasCoins
    /\ Len(user_input_valid.valid) = max_input
    /\ Cardinality(Range(coins)) = max_input + Len(default_coins)

\* C8: at the end of a run ERROR.txt exists exactly when the run failed, and
\* data.csv and receipt.txt exist only when it succeeded.
C8_MarkerExcludesData ==
    pc = "done" =>
        /\ exists(fs, out("ERROR.txt")) <=> raised # 0
        /\ exists(fs, out("data.csv")) => raised = 0
        /\ exists(fs, out("receipt.txt")) => raised = 0

----------------------------------------------------------------------------
(* Claim about a run of scr/app.py, under SpecScr *)

\* C2: at the end of a run, a callback payload in computed.json implies that
\* result.txt was written.
C2_CallbackImpliesFingerprint ==
    pc \in {"done", "crashed"} =>
        (exists(fs, out("computed.json")) /\ "callback-data" \in DOMAIN fs[out("computed.json")]
            => exists(fs, out("result.txt")))

----------------------------------------------------------------------------
(* Claims about create_csv, under SpecCsv *)

\* the data lines of data.csv
data_lines == SubSeq(fs[out("data.csv")], 2, Len(fs[out("data.csv")]))

\* the rows that count: those with a cap other than 0
Kept == {i \in 1..Len(results) : results[i].cap # 0}

key(r) == <<r.coin, strftime(r.date)>>

\* the last row that counts for each (coin, day)
LastOfKey == {i \in Kept : \A j \in Kept : key(results[j]) = key(results[i]) => j <= i}

\* line l is for the (coin, day) of row r and carries its price and cap
carries(l, r) ==
    /\ l[1] = r.coin
    /\ {l[2], l[3], l[4]} = {strftime(r.date), r.price, r.cap}

\* C3: the table holds exactly one line for each (coin, day) that has a row with
\* a cap other than 0, with the price and cap of the last such row.
C3_OneLinePerKey ==
    pc = "receipt" =>
        /\ Len(data_lines) = Cardinality(LastOfKey)
        /\ \A i \in LastOfKey : \E n \in 1..Len(data_lines) : carries(data_lines[n], results[i])

\* C10: each data line gives coin, price, cap, date in the order of the header.
C10_FieldsInHeaderOrder ==
    pc = "receipt" =>
        \A n \in 1..Len(data_lines) : \E i \in Kept :
            data_lines[n] = <<results[i].coin, results[i].price, results[i].cap,
                              strftime(results[i].date)>>

====
